---- MODULE Spec2Model ----
(***************************************************************************)
(* clean-run (src/index.js): scan a script and its local requires for the  *)
(* packages it needs, install them with npm, run the script with node and  *)
(* optionally remove what the run created.                                 *)
(*                                                                         *)
(* Strings are tuples of one-character strings, so that startsWith, split, *)
(* slice and join are computed as the code computes them.                  *)
(***************************************************************************)
EXTENDS Naturals, Sequences, FiniteSets, TLC

VARIABLES
    argv,          \* process.argv.slice(2): a sequence of arguments
    stdin,         \* process.stdin: the chunks the stream will deliver
    files,         \* the script files on disk: file name -> source text, once read
    quota,         \* the statements the texts not yet read can hold in all
    disk,          \* the paths that exist among the working directories
    disk0,         \* the disk as it was before the invocation
    pc,            \* main()'s position
    options,       \* parseArgs' options
    rest,          \* parseArgs' rest
    entry,         \* main's entry
    deps,          \* the Set deps, in insertion order
    visited,       \* the Set visited
    stack,         \* the scanDeps calls in progress, innermost last
    warned,        \* console.warn's calls (the entry each names)
    scanLog,       \* the entries whose source was obtained (line 31)
    cleanCwd, cleanPkg, cleanModules,
    child,         \* the child process spawnAsync waits for
    spawned,       \* every child spawned so far, with how it ended
    rmLog,         \* every fs.rm() so far
    stderr,        \* console.error's calls
    exitCode       \* process.exitCode

vars == <<argv, stdin, files, quota, disk, disk0, pc, options, rest, entry, deps,
          visited, stack, warned, scanLog, cleanCwd, cleanPkg, cleanModules,
          child, spawned, rmLog, stderr, exitCode>>

\* ------------------------------------------------------------------ bounds

\* require() calls (and other statements) in all the sources of a ScanSpec run
MaxRequires == 3
\* the same, in a run of Spec, where every option and disk state is drawn
MaxStatements == 2
\* the same, in a run of LiveSpec
MaxCycle == 2

\* ----------------------------------------------------------------- strings

Range(s) == {s[i] : i \in 1..Len(s)}

Min(a, b) == IF a < b THEN a ELSE b

\* String.prototype.startsWith, for a one-character prefix
StartsWith(s, c) == Len(s) >= 1 /\ s[1] = c

\* String.prototype.split(sep): the segments between the separators
RECURSIVE Split(_, _)
Split(s, sep) ==
    IF \A i \in 1..Len(s) : s[i] # sep
    THEN <<s>>
    ELSE LET k == CHOOSE i \in 1..Len(s) :
                      s[i] = sep /\ \A j \in 1..(i - 1) : s[j] # sep
         IN  <<SubSeq(s, 1, k - 1)>> \o Split(SubSeq(s, k + 1, Len(s)), sep)

\* Array.prototype.slice(0, n)
Slice0(segs, n) == SubSeq(segs, 1, Min(n, Len(segs)))

\* Array.prototype.join(sep)
RECURSIVE Join(_, _)
Join(segs, sep) ==
    IF Len(segs) = 0 THEN <<>>
    ELSE IF Len(segs) = 1 THEN segs[1]
    ELSE segs[1] \o <<sep>> \o Join(Tail(segs), sep)

\* --------------------------------------------------------------- the inputs

\* The file names a run can meet: a is the entry script, x is never on disk.
FileNames == {"a", "b", "u"}

RelA == <<".", "/", "a">>
RelB == <<".", "/", "b">>
RelU == <<".", "/", "u">>
RelX == <<".", "/", "x">>
BuiltinSub == <<"f", "s", "/", "p">>
ScopedDeep == <<"@", "s", "/", "p", "/", "d">>
ScopedDeep2 == <<"@", "s", "/", "p", "/", "e">>
BareSub == <<"p", "/", "s">>

RelativeSpecs == {RelA, RelB, RelU, RelX}
PackageSpecs == {BuiltinSub, ScopedDeep, ScopedDeep2, BareSub}

\* A statement of a source text: require(<specifier>), or any other text.
Req(spec) == [req |-> TRUE, spec |-> spec]
Other == [req |-> FALSE, spec |-> <<>>]
Statements == {Req(s) : s \in RelativeSpecs \cup PackageSpecs} \cup {Other}

\* module.builtinModules (the names this model's alphabet can spell)
builtinModules == {<<"f", "s">>, <<"f", "s", "/", "p">>, <<"p", "a", "t", "h">>}

SeqsUpTo(S, n) == UNION {[1..k -> S] : k \in 0..n}

\* ---------------------------------------------------------------- parseArgs

WordChars == {"a", "b", "c", "h", "s", "u", "x", "C", "d"}

\* /^-\w/.test(arg)
IsOption(arg) == Len(arg) >= 2 /\ arg[1] = "-" /\ arg[2] \in WordChars

Dot == <<".">>

DefaultOptions ==
    [cwd |-> Dot, silent |-> FALSE, clean |-> FALSE, help |-> FALSE]

\* The inner loop of parseArgs over the characters of args[i], from j on.
RECURSIVE ParseFlags(_, _, _, _)
ParseFlags(args, i, j, opts) ==
    LET arg == args[i] IN
    IF j > Len(arg) THEN [options |-> opts, i |-> i, error |-> FALSE]
    ELSE IF arg[j] = "s" THEN ParseFlags(args, i, j + 1, [opts EXCEPT !.silent = TRUE])
    ELSE IF arg[j] = "c" THEN ParseFlags(args, i, j + 1, [opts EXCEPT !.clean = TRUE])
    ELSE IF arg[j] = "h" THEN ParseFlags(args, i, j + 1, [opts EXCEPT !.help = TRUE])
    ELSE IF arg[j] = "C" THEN
        IF j < Len(arg) \/ i + 1 > Len(args)
        THEN [options |-> opts, i |-> i, error |-> TRUE]
        ELSE [options |-> [opts EXCEPT !.cwd = args[i + 1]], i |-> i + 1, error |-> FALSE]
    ELSE ParseFlags(args, i, j + 1, opts)

\* The outer loop of parseArgs, from argument i on.
RECURSIVE ParseFrom(_, _, _)
ParseFrom(args, i, opts) ==
    IF i > Len(args) THEN [options |-> opts, rest |-> <<>>, error |-> FALSE]
    ELSE IF ~IsOption(args[i])
    THEN [options |-> opts, rest |-> SubSeq(args, i, Len(args)), error |-> FALSE]
    ELSE LET r == ParseFlags(args, i, 2, opts) IN
         IF r.error THEN [options |-> r.options, rest |-> <<>>, error |-> TRUE]
         ELSE ParseFrom(args, r.i + 1, r.options)

parseArgs(args) == ParseFrom(args, 1, DefaultOptions)

\* ------------------------------------------------------------------ scanDeps

\* readStream: the chunks joined
RECURSIVE readStream(_)
readStream(input) ==
    IF input = <<>> THEN <<>> ELSE Head(input) \o readStream(Tail(input))

PathEntry(name) == [kind |-> "path", path |-> name, content |-> <<>>]
BlobEntry(content) == [kind |-> "blob", path |-> "-", content |-> content]

\* require.resolve(path.resolve(dir, p)) in the scripts' directory: the file
\* named, when it is on disk.
ResolveModule(p, onDisk) ==
    LET q == IF Len(p) >= 2 /\ p[1] = "." /\ p[2] = "/" THEN SubSeq(p, 3, Len(p)) ELSE p
    IN  IF Len(q) = 1 /\ q[1] \in DOMAIN onDisk
        THEN [ok |-> TRUE, path |-> q[1]]
        ELSE [ok |-> FALSE, path |-> ""]

\* Line 31: the source text of an entry.
SourceOf(e, onDisk) == IF e.kind = "path" THEN onDisk[e.path].text ELSE e.content

\* Lines 32-35: every require('...') of the text, in order.
RECURSIVE Matches(_)
Matches(code) ==
    IF code = <<>> THEN <<>>
    ELSE IF Head(code).req THEN <<Head(code).spec>> \o Matches(Tail(code))
    ELSE Matches(Tail(code))

\* Line 36: dep.startsWith('.')
IsRelative(dep) == StartsWith(dep, ".")

\* Mutant of PackageName: the specifier is kept whole.
PackageNameRaw(dep) == dep

\* Lines 42-48: the package a specifier names.
PackageName(dep) ==
    IF StartsWith(dep, "@")
    THEN Join(Slice0(Split(dep, "/"), 2), "/")
    ELSE Split(dep, "/")[1]

\* Mutant of IsBuiltin: no name is taken for a built-in.
IsBuiltinNever(dep) == FALSE

\* builtinModules.includes(dep)
IsBuiltin(dep) == dep \in builtinModules

\* Mutant of SetAdd: the set keeps the last name only.
SetAddReplace(set, x) == <<x>>

\* Set.prototype.add on a Set kept in insertion order
SetAdd(set, x) == IF x \in Range(set) THEN set ELSE Append(set, x)

\* Line 49
AddDep(set, dep) == IF ~IsBuiltin(dep) THEN SetAdd(set, dep) ELSE set

\* Mutant of Warn: the revisit is not reported.
WarnNothing(log, e) == log

\* Line 27
Warn(log, e) == Append(log, e)

\* Mutant of MarkVisited: the entry is not recorded.
MarkVisitedNot(set, e) == set

\* Line 30
MarkVisited(set, e) == set \cup {e}

\* Lines 26-31: a call of scanDeps(e), up to the first match.
ScanCall(e, s, onDisk) ==
    IF e \in s.visited
    THEN [s EXCEPT !.warned = Warn(@, e)]
    ELSE [s EXCEPT !.visited = MarkVisited(@, e),
                   !.scanLog = Append(@, e),
                   !.stack = Append(@, [entry |-> e,
                                        matches |-> Matches(SourceOf(e, onDisk)),
                                        i |-> 1])]

ScanState == [visited |-> visited, warned |-> warned, scanLog |-> scanLog, stack |-> stack]

SetScan(s) ==
    /\ visited' = s.visited
    /\ warned' = s.warned
    /\ scanLog' = s.scanLog
    /\ stack' = s.stack

\* A call of scanDeps(e) in scanning state s. fs.readFile gives the file's text:
\* any text, the first time the file is read.
Call(e, s) ==
    IF e \in s.visited \/ e.kind # "path" \/ files[e.path].read
    THEN /\ SetScan(ScanCall(e, s, files))
         /\ UNCHANGED <<files, quota>>
    ELSE \E c \in SeqsUpTo(Statements, quota) :
            /\ files' = [files EXCEPT ![e.path] = [read |-> TRUE, text |-> c]]
            /\ quota' = quota - Len(c)
            /\ SetScan(ScanCall(e, s, files'))

\* Mutant of Fail: the error is printed and the exit code left alone.
FailExitZero(err) ==
    /\ stderr' = Append(stderr, err)
    /\ exitCode' = exitCode
    /\ pc' = "done"

\* main().catch
Fail(err) ==
    /\ stderr' = Append(stderr, err)
    /\ exitCode' = 1
    /\ pc' = "done"

\* ---------------------------------------------------------------------- main

NoOutcome == [hasCode |-> FALSE, code |-> 0, signal |-> ""]

NoChild ==
    [running |-> FALSE, errored |-> FALSE, outcome |-> NoOutcome, command |-> "", args |-> <<>>,
     cwd |-> <<>>, silent |-> FALSE, stdin |-> <<>>, stdinEnded |-> FALSE]

\* Mutant of BeforeScan: the working directory is made before the scan.
BeforeScanMkdir(d, cwd) == d \cup {<<cwd>>}

\* Lines 149-158: between the usage checks and the call of scanDeps main only
\* reads (readStream, require.resolve); the disk stays as it is.
BeforeScan(d, cwd) == d

\* Lines 137-158: parse the arguments, find the entry and call scanDeps.
Start ==
    /\ pc = "start"
    /\ LET parsed == parseArgs(argv)
           entryFile == parsed.rest[1]
       IN  /\ options' = parsed.options
           /\ rest' = parsed.rest
           /\ IF parsed.error
              THEN /\ Fail("parseArgs")
                   /\ UNCHANGED <<entry, visited, warned, scanLog, stack, files, quota,
                                   disk>>
              ELSE IF parsed.options.help
              THEN /\ stderr' = Append(stderr, "USAGE")
                   /\ pc' = "done"
                   /\ UNCHANGED <<exitCode, entry, visited, warned, scanLog, stack,
                                   files, quota, disk>>
              ELSE IF parsed.rest = <<>> \/ entryFile = <<>>
              THEN /\ stderr' = stderr \o <<"USAGE", "entryFile is required">>
                   /\ exitCode' = 1
                   /\ pc' = "done"
                   /\ UNCHANGED <<entry, visited, warned, scanLog, stack, files, quota,
                                   disk>>
              ELSE IF entryFile = <<"-">>
              THEN LET e == BlobEntry(readStream(stdin)) IN
                   /\ entry' = e
                   /\ disk' = BeforeScan(disk, parsed.options.cwd)
                   /\ Call(e, ScanState)
                   /\ pc' = "scan"
                   /\ UNCHANGED <<stderr, exitCode>>
              ELSE LET r == ResolveModule(entryFile, files) IN
                   IF r.ok
                   THEN /\ entry' = PathEntry(r.path)
                        /\ disk' = BeforeScan(disk, parsed.options.cwd)
                        /\ Call(PathEntry(r.path), ScanState)
                        /\ pc' = "scan"
                        /\ UNCHANGED <<stderr, exitCode>>
                   ELSE /\ Fail("MODULE_NOT_FOUND")
                        /\ UNCHANGED <<entry, visited, warned, scanLog, stack,
                                        files, quota, disk>>
    /\ UNCHANGED <<argv, stdin, disk0, deps, cleanCwd, cleanPkg,
                   cleanModules, child, spawned, rmLog>>

Top == stack[Len(stack)]

\* Mutant of NextMatch: the search starts over from the same place.
NextMatchSame(i) == i

\* Lines 32-34: reg has the g flag, so each reg.exec resumes after the last match.
NextMatch(i) == i + 1

\* Lines 34-50: the next match of the innermost scanDeps call.
ScanRequire ==
    /\ pc = "scan"
    /\ stack # <<>>
    /\ Top.i <= Len(Top.matches)
    /\ LET dep == Top.matches[Top.i]
           advanced == [ScanState EXCEPT !.stack[Len(stack)].i = NextMatch(@)]
       IN  IF IsRelative(dep)
           THEN LET r == ResolveModule(dep, files) IN
                IF r.ok
                THEN /\ Call(PathEntry(r.path), advanced)
                     /\ UNCHANGED <<deps, pc, stderr, exitCode>>
                ELSE /\ Fail("MODULE_NOT_FOUND")
                     /\ UNCHANGED <<deps, visited, warned, scanLog, stack, files, quota>>
           ELSE /\ deps' = AddDep(deps, PackageName(dep))
                /\ SetScan(advanced)
                /\ UNCHANGED <<pc, stderr, exitCode, files, quota>>
    /\ UNCHANGED <<argv, stdin, disk, disk0, options, rest, entry,
                   cleanCwd, cleanPkg, cleanModules, child, spawned, rmLog>>

\* Line 51: the innermost scanDeps call returns; main goes on when it was the root.
ScanReturn ==
    /\ pc = "scan"
    /\ stack # <<>>
    /\ Top.i > Len(Top.matches)
    /\ stack' = SubSeq(stack, 1, Len(stack) - 1)
    /\ pc' = IF Len(stack) = 1 THEN "prepare" ELSE "scan"
    /\ UNCHANGED <<argv, stdin, files, quota, disk, disk0, options, rest, entry, deps,
                   visited, warned, scanLog, cleanCwd, cleanPkg, cleanModules,
                   child, spawned, rmLog, stderr, exitCode>>

\* path.resolve(options.cwd, name)
PathIn(dir, name) == <<dir, name>>

\* Mutant of exists: nothing is ever found on disk.
existsNever(fullpath) == FALSE

\* exists(fullpath)
exists(fullpath) == fullpath \in disk

\* fs.rm(fullpath, { force: true, recursive: true }): the path and all below it
Rm(d, fullpath) ==
    {p \in d : ~(Len(p) >= Len(fullpath) /\ SubSeq(p, 1, Len(fullpath)) = fullpath)}

\* Lines 159-165
EnsureCwd ==
    /\ pc = "prepare"
    /\ IF ~exists(<<options.cwd>>)
       THEN /\ disk' = disk \cup {<<options.cwd>>}
            /\ cleanCwd' = TRUE
       ELSE UNCHANGED <<disk, cleanCwd>>
    /\ pc' = "pkg"
    /\ UNCHANGED <<argv, stdin, files, quota, disk0, options, rest, entry, deps, visited,
                   stack, warned, scanLog, cleanPkg, cleanModules, child, spawned,
                   rmLog, stderr, exitCode>>

\* Lines 166-170
EnsurePkg ==
    /\ pc = "pkg"
    /\ IF ~exists(PathIn(options.cwd, "package.json"))
       THEN /\ disk' = disk \cup {PathIn(options.cwd, "package.json")}
            /\ cleanPkg' = TRUE
       ELSE UNCHANGED <<disk, cleanPkg>>
    /\ pc' = "modules"
    /\ UNCHANGED <<argv, stdin, files, quota, disk0, options, rest, entry, deps, visited,
                   stack, warned, scanLog, cleanCwd, cleanModules, child, spawned,
                   rmLog, stderr, exitCode>>

\* Lines 171-174
CheckModules ==
    /\ pc = "modules"
    /\ cleanModules' = ~exists(PathIn(options.cwd, "node_modules"))
    /\ pc' = "install"
    /\ UNCHANGED <<argv, stdin, files, quota, disk, disk0, options, rest, entry, deps,
                   visited, stack, warned, scanLog, cleanCwd, cleanPkg, child,
                   spawned, rmLog, stderr, exitCode>>

\* Line 71: if (stdin) child.stdin.end(stdin, 'utf8')
StdinEnded(input) == input # <<>>

\* Lines 54-63 and 71: spawn the child and feed it its input.
spawnAsync(command, args, opts) ==
    [running |-> TRUE, errored |-> FALSE, outcome |-> NoOutcome,
     command |-> command, args |-> args, cwd |-> opts.cwd, silent |-> opts.silent,
     stdin |-> IF StdinEnded(opts.stdin) THEN opts.stdin ELSE <<>>,
     stdinEnded |-> StdinEnded(opts.stdin)]

\* Lines 75-81 (line 175): npm install --no-save --no-package-lock ...deps
installDeps ==
    /\ pc = "install"
    /\ LET c == spawnAsync("npm", deps,
                           [cwd |-> options.cwd, silent |-> options.silent, stdin |-> <<>>])
       IN  /\ child' = c
           /\ spawned' = Append(spawned, c)
    /\ pc' = "installing"
    /\ UNCHANGED <<argv, stdin, files, quota, disk, disk0, options, rest, entry, deps,
                   visited, stack, warned, scanLog, cleanCwd, cleanPkg, cleanModules,
                   rmLog, stderr, exitCode>>

\* Lines 176-182: node ...rest, fed the piped script
RunScript ==
    /\ pc = "run"
    /\ LET c == spawnAsync("node", rest,
                           [cwd |-> Dot, silent |-> FALSE,
                            stdin |-> IF entry.kind = "path" THEN <<>> ELSE entry.content])
       IN  /\ child' = c
           /\ spawned' = Append(spawned, c)
    /\ pc' = "running"
    /\ UNCHANGED <<argv, stdin, files, quota, disk, disk0, options, rest, entry, deps,
                   visited, stack, warned, scanLog, cleanCwd, cleanPkg, cleanModules,
                   rmLog, stderr, exitCode>>

\* How a child process can end: (code, signal) of its 'close' event. A child
\* that a signal ended has no code (null).
Outcomes ==
    {[hasCode |-> TRUE, code |-> 0, signal |-> ""],
     [hasCode |-> TRUE, code |-> 1, signal |-> ""],
     [hasCode |-> FALSE, code |-> 0, signal |-> "SIGTERM"]}

\* Mutant of Rejects: the promise resolves whatever the exit code.
RejectsNever(o) == FALSE

\* Line 68: if (code) reject({ code, signal })
Rejects(o) == o.hasCode /\ o.code # 0

\* Lines 67-70: the child's 'close' event. npm may have made node_modules.
ChildClose ==
    /\ pc \in {"installing", "running"}
    /\ \E o \in Outcomes :
          /\ child' = [child EXCEPT !.running = FALSE, !.outcome = o]
          /\ spawned' = [spawned EXCEPT ![Len(spawned)] = child']
          /\ IF Rejects(o)
             THEN /\ Fail("close")
                  /\ UNCHANGED rmLog
             ELSE /\ pc' = IF pc = "installing" THEN "run" ELSE "clean"
                  /\ UNCHANGED <<stderr, exitCode, rmLog>>
    /\ \E made \in BOOLEAN :
          disk' = IF made /\ pc = "installing"
                  THEN disk \cup {<<options.cwd>>, PathIn(options.cwd, "node_modules")}
                  ELSE disk
    /\ UNCHANGED <<argv, stdin, files, quota, disk0, options, rest, entry, deps, visited,
                   stack, warned, scanLog, cleanCwd, cleanPkg, cleanModules>>

\* Lines 64-66: the child's 'error' event (it could not be spawned)
ChildError ==
    /\ pc \in {"installing", "running"}
    /\ child' = [child EXCEPT !.running = FALSE, !.errored = TRUE]
    /\ spawned' = [spawned EXCEPT ![Len(spawned)] = child']
    /\ Fail("error")
    /\ UNCHANGED <<argv, stdin, files, quota, disk, disk0, options, rest, entry, deps,
                   visited, stack, warned, scanLog, cleanCwd, cleanPkg, cleanModules,
                   rmLog>>

\* Lines 183-188
Clean ==
    /\ pc = "clean"
    /\ LET modulesPath == PathIn(options.cwd, "node_modules")
           pkgFile == PathIn(options.cwd, "package.json")
           targets == (IF cleanModules THEN <<modulesPath>> ELSE <<>>)
                      \o (IF cleanPkg THEN <<pkgFile>> ELSE <<>>)
                      \o (IF cleanCwd THEN << <<options.cwd>> >> ELSE <<>>)
           d1 == IF cleanModules THEN Rm(disk, modulesPath) ELSE disk
           d2 == IF cleanPkg THEN Rm(d1, pkgFile) ELSE d1
           d3 == IF cleanCwd THEN Rm(d2, <<options.cwd>>) ELSE d2
       IN  IF options.clean
           THEN /\ disk' = d3
                /\ rmLog' = rmLog \o targets
           ELSE UNCHANGED <<disk, rmLog>>
    /\ pc' = "done"
    /\ UNCHANGED <<argv, stdin, files, quota, disk0, options, rest, entry, deps, visited,
                   stack, warned, scanLog, cleanCwd, cleanPkg, cleanModules, child,
                   spawned, stderr, exitCode>>

Next ==
    \/ Start
    \/ ScanRequire
    \/ ScanReturn
    \/ EnsureCwd
    \/ EnsurePkg
    \/ CheckModules
    \/ installDeps
    \/ RunScript
    \/ ChildClose
    \/ ChildError
    \/ Clean

\* ---------------------------------------------------------------------- Init

Dir == <<"d">>
EntryArgs == {<<"a">>, <<"x">>, <<"-">>}
OptionArgs ==
    {<<>>, << <<"-", "c">> >>, << <<"-", "C">>, Dir >>,
     << <<"-", "c">>, <<"-", "C">>, Dir >>, << <<"-", "s", "c">> >>}
Argvs ==
    {o \o <<e>> : o \in OptionArgs, e \in EntryArgs}
    \cup {<<>>, << <<"-", "h">> >>, << <<"-", "c">> >>,
          << <<"-", "C", "c">>, Dir, <<"a">> >>, << <<"-", "C">> >>}

\* The chunks in which the stream delivers a text.
Chunks(c) ==
    IF c = <<>> THEN <<>>
    ELSE IF Len(c) = 1 THEN <<c>>
    ELSE <<SubSeq(c, 1, 1), Tail(c)>>

\* What can exist of a working directory before the invocation.
Disks(dir) ==
    LET all == {<<dir>>, PathIn(dir, "package.json"), PathIn(dir, "node_modules")}
    IN  {{<<Dot>>} \cup s : s \in {t \in SUBSET all : t # {} => <<dir>> \in t}}

Unread == [read |-> FALSE, text |-> <<>>]

\* The script is either on disk as file a, beside b and u, or piped in, beside
\* b and u; the sources hold n statements in all at most.
InitWith(args, n, disks) ==
    /\ argv \in args
    /\ LET parsed == parseArgs(argv)
           e == IF parsed.error \/ parsed.rest = <<>> THEN <<>> ELSE parsed.rest[1]
       IN  /\ IF e = <<"-">>
              THEN \E c \in SeqsUpTo(Statements, n) :
                      /\ files = [f \in FileNames \ {"a"} |-> Unread]
                      /\ stdin = Chunks(c)
                      /\ quota = n - Len(c)
              ELSE /\ files = [f \in FileNames |-> Unread]
                   /\ stdin = <<>>
                   /\ quota = n
           /\ disk \in IF disks THEN Disks(parsed.options.cwd) ELSE {{<<Dot>>}}
    /\ disk0 = disk
    /\ pc = "start"
    /\ options = DefaultOptions
    /\ rest = <<>>
    /\ entry = PathEntry("")
    /\ deps = <<>>
    /\ visited = {}
    /\ stack = <<>>
    /\ warned = <<>>
    /\ scanLog = <<>>
    /\ cleanCwd = FALSE
    /\ cleanPkg = FALSE
    /\ cleanModules = FALSE
    /\ child = NoChild
    /\ spawned = <<>>
    /\ rmLog = <<>>
    /\ stderr = <<>>
    /\ exitCode = 0

\* Every command line and working directory, small script trees.
Init == InitWith(Argvs, MaxStatements, TRUE)

Spec == Init /\ [][Next]_vars

\* Larger script trees, run with -c in a directory that holds nothing yet.
ScanArgvs == {<< <<"-", "c">>, <<"a">> >>, << <<"-", "c">>, <<"-">> >>}

InitScan == InitWith(ScanArgvs, MaxRequires, FALSE)

ScanSpec == InitScan /\ [][Next]_vars

\* The script on disk, for the claims about what eventually happens. main's
\* steps follow one another without waiting for anything but the children,
\* which end.
LiveArgvs == {<< <<"-", "c">>, <<"a">> >>}

InitLive == InitWith(LiveArgvs, MaxCycle, FALSE)

LiveSpec == InitLive /\ [][Next]_vars /\ WF_vars(Next)

\* -------------------------------------------------------------------- claims

A == PathEntry("a")
B == PathEntry("b")
U == PathEntry("u")

\* The root call of scanDeps has returned.
ScanReturned == pc \notin {"start", "scan"} /\ stack = <<>> /\ scanLog # <<>>

WasRead(f) == f \in DOMAIN files /\ files[f].read

\* The relative requires of a text, in order.
LocalReqs(text) == SelectSeq(Matches(text), IsRelative)

Count(log, e) == Cardinality({i \in 1..Len(log) : log[i] = e})

ModulesPath == PathIn(options.cwd, "node_modules")
PkgFile == PathIn(options.cwd, "package.json")

ExitedNonZero(c) == ~c.running /\ ~c.errored /\ c.outcome.hasCode /\ c.outcome.code # 0
Signalled(c) == ~c.running /\ ~c.errored /\ ~c.outcome.hasCode
ChildFailed(c) == c.errored \/ ExitedNonZero(c) \/ Signalled(c)

C2_NoRunAfterInstallFailure ==
    (Len(spawned) >= 1 /\ ChildFailed(spawned[1])) => Len(spawned) = 1

FatalError ==
    \/ \E i \in 1..Len(stderr) :
          stderr[i] \in {"parseArgs", "entryFile is required", "MODULE_NOT_FOUND"}
    \/ \E i \in 1..Len(spawned) : ChildFailed(spawned[i])

\* C4 (as claimed): the exit code is non-zero exactly when a fatal error
\* happened: a usage or resolution error, or a child that exited non-zero, was
\* ended by a signal or could not be spawned.
C4_ExitCodeReflectsFailure ==
    pc = "done" => (exitCode # 0 <=> FatalError)

\* a requires b and b requires a, and neither requires another file.
TwoCycle ==
    /\ entry = A /\ WasRead("a") /\ WasRead("b")
    /\ LocalReqs(files["a"].text) = <<RelB>>
    /\ LocalReqs(files["b"].text) = <<RelA>>

\* C5: when a requires b and b requires a, the scan returns, having warned
\* exactly once (of a), without an error.
C5_TwoCycleOneWarning ==
    TwoCycle ~> (ScanReturned /\ warned = <<A>>
                 /\ "MODULE_NOT_FOUND" \notin Range(stderr))

\* C5 witness: the scan of such a cycle has returned.
C5_Witness == TwoCycle /\ ScanReturned /\ Len(warned) = 1

\* The entry requires b and u, b requires u, u requires no file: no cycle.
SharedUtility ==
    /\ scanLog # <<>>
    /\ LocalReqs(SourceOf(entry, files)) \in {<<RelB, RelU>>, <<RelU, RelB>>}
    /\ WasRead("b") /\ LocalReqs(files["b"].text) = <<RelU>>
    /\ WasRead("u") /\ LocalReqs(files["u"].text) = <<>>

\* C6 (as claimed): a utility two modules require is scanned once and no
\* warning is emitted.
C6_SharedNoWarning ==
    (SharedUtility /\ ScanReturned) => (Count(scanLog, U) = 1 /\ warned = <<>>)

\* C6 (amended): a utility two modules require is scanned once, and its second
\* require emits one warning although its scan is over; every warning names a
\* unit that was scanned, once.
C6_SharedWarnedOnce ==
    /\ (SharedUtility /\ ScanReturned) => (Count(scanLog, U) = 1 /\ warned = <<U>>)
    /\ \A i \in 1..Len(warned) : Count(scanLog, warned[i]) = 1

\* C6 witness: the scan of such a tree has returned with its warning.
C6_Witness == SharedUtility /\ ScanReturned /\ warned = <<U>>

\* C7 (as claimed): a runner started for a piped script has been given the
\* whole captured text, its input ended, and that text is what was scanned.
C7_RunnerFedCapturedText ==
    \A i \in 1..Len(spawned) :
        (spawned[i].command = "node" /\ entry.kind = "blob")
            => /\ spawned[i].stdinEnded
               /\ spawned[i].stdin = readStream(stdin)
               /\ scanLog[1] = BlobEntry(readStream(stdin))

\* The scan is at a relative require that names no file.
AtUnresolvable ==
    /\ pc = "scan"
    /\ Top.i <= Len(Top.matches)
    /\ IsRelative(Top.matches[Top.i])
    /\ ~ResolveModule(Top.matches[Top.i], files).ok

\* C8: a relative require that cannot be resolved ends the invocation at once
\* with a non-zero exit code, and after a resolution error no child is ever
\* spawned.
C8_ResolutionErrorAborts ==
    /\ [][AtUnresolvable =>
            (pc' = "done" /\ exitCode' # 0 /\ spawned' = <<>>
             /\ "MODULE_NOT_FOUND" \in Range(stderr'))]_vars
    /\ []("MODULE_NOT_FOUND" \in Range(stderr)
            => (pc = "done" /\ exitCode # 0 /\ spawned = <<>>))

\* C8 witness: the scan failed two calls deep.
C8_Witness ==
    /\ "MODULE_NOT_FOUND" \in Range(stderr)
    /\ Len(stack) >= 2
    /\ pc = "done"

\* The texts scanned so far hold a require of spec.
Required(spec) ==
    \E i \in 1..Len(scanLog) : spec \in Range(Matches(SourceOf(scanLog[i], files)))

\* C9: npm is never given the name of a built-in module.
C9_NoBuiltinInstalled ==
    \A i \in 1..Len(spawned) :
        spawned[i].command = "npm"
            => \A j \in 1..Len(spawned[i].args) :
                  spawned[i].args[j] \notin builtinModules

\* C9 witness: npm was spawned for a script that requires a sub-path of a
\* built-in, and another package.
C9_Witness ==
    /\ spawned # <<>>
    /\ Required(BuiltinSub)
    /\ spawned[1].args = << <<"p">> >>

Slashes(d) == Cardinality({i \in 1..Len(d) : d[i] = "/"})

\* C10: deps holds package names only (@scope/name, or a name without a
\* slash), each once; when the scan has returned, the scoped requires have
\* given @s/p and the bare one p.
C10_PackageNamesOnly ==
    /\ \A i \in 1..Len(deps) :
          /\ Slashes(deps[i]) = IF StartsWith(deps[i], "@") THEN 1 ELSE 0
          /\ \A j \in 1..Len(deps) : deps[i] = deps[j] => i = j
    /\ ScanReturned =>
          /\ (Required(ScopedDeep) \/ Required(ScopedDeep2))
                <=> <<"@", "s", "/", "p">> \in Range(deps)
          /\ Required(BareSub) <=> <<"p">> \in Range(deps)
          /\ Range(deps) \subseteq {<<"@", "s", "/", "p">>, <<"p">>}

\* C10 witness: two sub-paths of one scoped package were required, and deps
\* holds the package once.
C10_Witness ==
    /\ ScanReturned
    /\ Required(ScopedDeep) /\ Required(ScopedDeep2)
    /\ deps = << <<"@", "s", "/", "p">> >>

\* C11 (as claimed): with -C <cwd> and -c, once the run is over the directory
\* <cwd> is gone.
C11_CwdRemovedAfterRun ==
    (pc = "done" /\ options.clean /\ options.cwd = Dir
     /\ Len(spawned) = 2 /\ exitCode = 0)
        => <<Dir>> \notin disk

\* C12: the phases are strictly sequential. The installer is invoked once, only
\* after the root scan has returned, with the final package set; the runner is
\* invoked at most once, only after the installer has exited successfully (exit
\* code 0); cleanup starts only after the runner has completed.
C12_PhasesSequential ==
    /\ Len(spawned) <= 2
    /\ spawned # <<>> =>
          /\ spawned[1].command = "npm"
          /\ ScanReturned
          /\ spawned[1].args = deps
    /\ Len(spawned) = 2 =>
          /\ spawned[2].command = "node"
          /\ ~spawned[1].running /\ ~spawned[1].errored
          /\ spawned[1].outcome.hasCode /\ spawned[1].outcome.code = 0
    /\ (pc = "clean" \/ rmLog # <<>>) =>
          /\ Len(spawned) = 2
          /\ ~spawned[2].running

\* The innermost scanDeps call is about to follow a relative require that
\* resolves to a unit already visited.
AtRevisit ==
    /\ pc = "scan"
    /\ stack # <<>>
    /\ Top.i <= Len(Top.matches)
    /\ IsRelative(Top.matches[Top.i])
    /\ LET r == ResolveModule(Top.matches[Top.i], files)
       IN  r.ok /\ PathEntry(r.path) \in visited

RevisitedEntry == PathEntry(ResolveModule(Top.matches[Top.i], files).path)

\* C13: whatever the local import graph (cycles, self-imports, diamonds,
\* repeated requires), no unit is read and scanned more than once, and a revisit
\* is logged as a warning and is never fatal: the scan goes on, nothing is
\* scanned again, and neither an error nor an exit code is produced.
C13_ScannedAtMostOnce ==
    /\ [](\A i, j \in 1..Len(scanLog) : scanLog[i] = scanLog[j] => i = j)
    /\ [][AtRevisit => /\ warned' = Append(warned, RevisitedEntry)
                       /\ scanLog' = scanLog
                       /\ pc' = "scan"
                       /\ stderr' = stderr
                       /\ exitCode' = exitCode]_vars
    /\ [][warned' # warned => AtRevisit]_vars

\* A scan returned after two revisits, one of them of the unit scanned last.
C13_Witness ==
    /\ ScanReturned
    /\ Len(scanLog) >= 2
    /\ Len(warned) >= 2
    /\ \E i \in 1..Len(warned) : warned[i] = scanLog[Len(scanLog)]

\* C14: the scan of a finite local import graph terminates: the root call of
\* scanDeps returns, unless a relative import did not resolve.
C14_ScanTerminates ==
    <>(ScanReturned \/ "MODULE_NOT_FOUND" \in Range(stderr))

\* The scan of a unit that requires itself twice has returned.
C14_Witness ==
    /\ ScanReturned
    /\ entry = A
    /\ LocalReqs(files["a"].text) = <<RelA, RelA>>
    /\ warned = <<A, A>>
    /\ stderr = <<>>

\* The files a text requires by a relative specifier.
FilesRequired(text) ==
    {f \in FileNames : \E k \in 1..Len(text) :
        text[k].req /\ text[k].spec = <<".", "/", f>>}

\* The files reachable from the set S of files along relative requires.
RECURSIVE ReachFrom(_)
ReachFrom(S) ==
    LET N == S \cup UNION {FilesRequired(files[f].text) : f \in S \cap DOMAIN files}
    IN  IF N = S THEN S ELSE ReachFrom(N)

\* The texts of the entry script and of every file reachable from it.
ReachableTexts ==
    LET root == IF entry.kind = "path" THEN files[entry.path].text ELSE entry.content
    IN  {root} \cup {files[f].text : f \in ReachFrom(FilesRequired(root)) \cap DOMAIN files}

\* The package each non-relative specifier of the alphabet stands for; the
\* sub-path of a built-in stands for none.
NamedPackage(spec) ==
    IF spec \in {ScopedDeep, ScopedDeep2} THEN {<<"@", "s", "/", "p">>}
    ELSE IF spec = BareSub THEN {<<"p">>}
    ELSE {}

PackagesOf(text) ==
    UNION {NamedPackage(text[k].spec) : k \in {j \in 1..Len(text) : text[j].req}}

ExpectedPackages == UNION {PackagesOf(t) : t \in ReachableTexts}

\* C15: when the root scan returns, deps holds exactly the normalized names of
\* the non-built-in packages that the files reachable from the entry require,
\* each once: neither the early return on a revisit nor the order of the
\* requires drops or adds a package.
C15_DepsExactlyReachable ==
    ScanReturned =>
        /\ Range(deps) = ExpectedPackages
        /\ Len(deps) = Cardinality(ExpectedPackages)

\* The scan has returned from a cycle in which only a unit other than the entry
\* requires a package.
C15_Witness ==
    /\ ScanReturned
    /\ warned # <<>>
    /\ PackagesOf(SourceOf(entry, files)) = {}
    /\ deps # <<>>

\* The invocation ended in an error with no child ever spawned: a usage error,
\* or a resolution error of the entry or during the scan.
FailedBeforeInstall == pc = "done" /\ exitCode = 1 /\ spawned = <<>>

\* C16: an invocation that fails before the install has created nothing: up to
\* the return of the root scan, and after such a failure, the disk is as the
\* invocation found it, and nothing is flagged for cleanup or removed.
C16_NoArtifactBeforeInstall ==
    (pc \in {"start", "scan"} \/ FailedBeforeInstall) =>
        /\ disk = disk0
        /\ ~cleanCwd /\ ~cleanPkg /\ ~cleanModules
        /\ rmLog = <<>>

\* A run with -C d, d not on disk, failed on a relative require of a unit
\* scanned after the entry resolved: d was not made.
C16_Witness ==
    /\ FailedBeforeInstall
    /\ options.cwd = Dir
    /\ <<Dir>> \notin disk0
    /\ scanLog # <<>>
    /\ "MODULE_NOT_FOUND" \in Range(stderr)
    /\ <<Dir>> \notin disk

====
